---- MODULE Spec2Model ----
(***************************************************************************)
(* State-machine model of drivers/thermal/imx8mm_thermal.c: the i.MX8MM    *)
(* thermal monitor unit driver.  One driver context runs probe and, after  *)
(* a successful probe, remove; one framework polling context invokes       *)
(* tmu_get_temp and tmu_get_trend; one policy context invokes              *)
(* tmu_set_trip_temp.  The contexts interleave step by step.               *)
(*                                                                         *)
(* A u32 is the pair <<hi, lo>> of its 16-bit halves, so that the C        *)
(* arithmetic modulo 2^32 is computed exactly; an int is an integer of     *)
(* INT_MIN..INT_MAX.                                                       *)
(***************************************************************************)
EXTENDS Integers, Sequences, FiniteSets, TLC

\* ------------------------------------------------------------------------
\* Bounds of the model
\* ------------------------------------------------------------------------
\* tmu_set_trip_temp calls the policy context may make
MaxSetTrips == 2

\* ------------------------------------------------------------------------
\* Program constants
\* ------------------------------------------------------------------------
TEMP_VAL_MASK == 255
TEMP_LOW_LIMIT == 10
IMX_TEMP_PASSIVE_COOL_DELTA == 10000
IMX_TRIP_PASSIVE == 0
IMX_TRIP_CRITICAL == 1
CALIB_BASE == 25
MILLI == 1000

\* ------------------------------------------------------------------------
\* 32-bit arithmetic
\* ------------------------------------------------------------------------
HALF == 2^16
SIGN == 2^15
INT_MAX == (SIGN - 1) * HALF + (HALF - 1)
INT_MIN == (-INT_MAX) - 1

\* the u32 of a natural number below 2^31
u32(n) == <<n \div HALF, n % HALF>>

\* a - b modulo 2^32
u32_sub(a, b) ==
    LET lo == a[2] - b[2]
        borrow == IF lo < 0 THEN 1 ELSE 0
    IN  <<(a[1] - b[1] - borrow) % HALF, lo % HALF>>

\* a + b modulo 2^32
u32_add(a, b) ==
    LET lo == a[2] + b[2]
    IN  <<(a[1] + b[1] + (lo \div HALF)) % HALF, lo % HALF>>

\* a * k modulo 2^32, for a factor k below 2^15
u32_mul(a, k) ==
    LET lo == a[2] * k
    IN  <<(a[1] * k + (lo \div HALF)) % HALF, lo % HALF>>

\* unsigned a < b
u32_lt(a, b) == a[1] < b[1] \/ (a[1] = b[1] /\ a[2] < b[2])

\* a & m for a mask m below 2^16 of the form 2^k - 1
u32_and(a, m) == <<0, a[2] % (m + 1)>>

\* the conversion (int)a
u32_to_int(a) ==
    IF a[1] >= SIGN THEN (a[1] - HALF) * HALF + a[2] ELSE a[1] * HALF + a[2]

\* the conversion (u32)i of an int
int_to_u32(i) ==
    IF i < 0 THEN <<((i \div HALF) + HALF) % HALF, i % HALF>> ELSE u32(i)

\* BIT(31)
TER_EN == <<SIGN, 0>>
\* val = TER_EN
u32_set_bit31_only(a) == TER_EN

\* val | TER_EN
u32_set_bit31(a) == <<IF a[1] >= SIGN THEN a[1] ELSE a[1] + SIGN, a[2]>>
\* val & ~TER_EN
u32_clear_bit31(a) == <<a[1] % SIGN, a[2]>>
u32_bit31(a) == a[1] >= SIGN

\* ------------------------------------------------------------------------
\* Inputs: register contents and framework-supplied values
\* ------------------------------------------------------------------------
\* contents of TRITSR (bit 31 is TRITSR_VALID, bits 0..7 the temperature)
TRITSR_Words == {<<0, 9>>, <<SIGN, 10>>, <<SIGN, 256 + 45>>, <<SIGN, 255>>}
\* contents of TSCR (bits 0..7 the raw sensor value)
TSCR_Words == {<<0, 0>>, <<0, 256 + 5>>, <<0, 9>>, <<0, 255>>}
\* contents of the OCOTP word at OCOTP_TMU_CALIB
OCOTP_Words == {<<0, 0>>, <<43981, 256 + 20>>, <<0, 30>>, <<43981, 256 + 255>>}
\* contents of TER before probe
TER_Words == {<<0, 42>>, <<SIGN, 42>>}
\* trip points of the thermal zone: trips[0], trips[1]
TripPoints == {<<85000, 95000>>}
\* temperatures the policy layer writes
SetTemps == {INT_MIN, 70000, 85000}
\* tzd->temperature as the framework holds it
ZoneTemps == {-5000, 74999, 75000, 76000, 85000}

VARIABLES
    pc,         \* position of the driver context in probe / remove
    ret,        \* value returned by imx8mm_tmu_probe ("none" while running)
    tmu,        \* struct imx8mm_tmu
    val,        \* local u32 val of probe and remove
    TER,        \* the TMU enable register
    res,        \* resources held: mappings, clock, zone, cooling device
    trips,      \* the zone's trip points
    ocotp,      \* the fuse word probe read (hist.fuse_reads tells whether it did)
    log,        \* messages printed by probe
    hist,       \* driver history: register writes and accesses
    gt,         \* the running tmu_get_temp call
    tr,         \* the running tmu_get_trend call
    st          \* tmu_set_trip_temp calls made, and the last one

vars == <<pc, ret, tmu, val, TER, res, trips, ocotp, log, hist, gt, tr, st>>

\* devm_kzalloc: every field zero
tmu_zero ==
    [tzd |-> "NULL", cdev |-> "NULL", clk |-> "NULL", tmu_base |-> "NULL",
     enabled |-> FALSE, do_calib |-> FALSE, temp_passive |-> 0,
     temp_critical |-> 0, fuse_calib_val |-> <<0, 0>>]

res_none ==
    [iomap |-> FALSE, clk |-> FALSE, clk_enabled |-> FALSE, zone |-> FALSE,
     cdev |-> FALSE, bound |-> FALSE, hwmon |-> FALSE,
     ocotp_np |-> FALSE, ocotp_map |-> FALSE]

gt_idle ==
    [pc |-> "idle", val |-> <<0, 0>>, temp_written |-> FALSE, temp |-> 0,
     ret |-> "none", events |-> <<>>]

tr_idle ==
    [pc |-> "idle", trip |-> 0, trip_temp |-> 0, temperature |-> 0,
     trend |-> "unwritten", ret |-> "none"]

hist_none ==
    [ter_sets |-> 0, ter_clears |-> 0, fuse_reads |-> 0, trip_inits |-> 0,
     unmapped_access |-> {}]

Init ==
    /\ pc = "probe"
    /\ ret = "none"
    /\ tmu = tmu_zero
    /\ val = <<0, 0>>
    /\ TER \in TER_Words
    /\ res = res_none
    /\ trips \in TripPoints
    /\ ocotp = <<0, 0>>
    /\ log = <<>>
    /\ hist = hist_none
    /\ gt = gt_idle
    /\ tr = tr_idle
    /\ st = [n |-> 0, trip |-> 0, temp |-> 0, ret |-> "none"]

\* a register access by context who: recorded when the window is not mapped
Access(who) ==
    IF res.iomap THEN hist.unmapped_access ELSE hist.unmapped_access \cup {who}


\* ------------------------------------------------------------------------
\* imx8mm_tmu_probe
\* ------------------------------------------------------------------------
\* goto err with ret = code
GotoErr(code) == pc' = "err" /\ ret' = code

\* lines 152-161: the device node check and devm_kzalloc
ProbeAlloc ==
    /\ pc = "probe"
    /\ \E out \in {"ok", "-ENODEV", "-ENOMEM"} :
         IF out = "ok"
         THEN pc' = "iomap" /\ ret' = ret
         ELSE pc' = "probe_failed" /\ ret' = out
    /\ tmu' = tmu_zero
    /\ UNCHANGED <<val, TER, res, trips, ocotp, log, hist, gt, tr, st>>

\* lines 163-167: of_iomap of the TMU window; a failure returns at once
ProbeIomap ==
    /\ pc = "iomap"
    /\ \E ok \in BOOLEAN :
         IF ok
         THEN /\ tmu' = [tmu EXCEPT !.tmu_base = "mapped"]
              /\ res' = [res EXCEPT !.iomap = TRUE]
              /\ pc' = "clk_get" /\ ret' = ret /\ log' = log
         ELSE /\ pc' = "probe_failed" /\ ret' = "-ENODEV"
              /\ log' = Append(log, "err_map")
              /\ UNCHANGED <<tmu, res>>
    /\ UNCHANGED <<val, TER, trips, ocotp, hist, gt, tr, st>>

\* lines 169-174: devm_clk_get
ProbeClkGet ==
    /\ pc = "clk_get"
    /\ \E ok \in BOOLEAN :
         IF ok
         THEN /\ tmu' = [tmu EXCEPT !.clk = "clk"]
              /\ res' = [res EXCEPT !.clk = TRUE]
              /\ pc' = "zone_register" /\ ret' = ret /\ log' = log
         ELSE /\ tmu' = [tmu EXCEPT !.clk = "ERR"]
              /\ GotoErr("-ECLK")
              /\ log' = Append(log, "err_clk")
              /\ res' = res
    /\ UNCHANGED <<val, TER, trips, ocotp, hist, gt, tr, st>>

\* line 177, the call: devm_thermal_zone_of_sensor_register makes the sensor
\* known to the thermal framework, which may invoke tmu_tz_ops from then on
ProbeZoneRegister ==
    /\ pc = "zone_register"
    /\ \E ok \in BOOLEAN :
         IF ok
         THEN /\ res' = [res EXCEPT !.zone = TRUE]
              /\ pc' = "zone_assign" /\ ret' = ret /\ log' = log /\ tmu' = tmu
         ELSE /\ tmu' = [tmu EXCEPT !.tzd = "ERR"]
              /\ GotoErr("-EZONE")
              /\ log' = Append(log, "err_zone")
              /\ res' = res
    /\ UNCHANGED <<val, TER, trips, ocotp, hist, gt, tr, st>>

\* line 177, the assignment: tmu->tzd receives the registered zone
ProbeZoneAssign ==
    /\ pc = "zone_assign"
    /\ tmu' = [tmu EXCEPT !.tzd = "zone"]
    /\ pc' = "cdev_register"
    /\ UNCHANGED <<ret, val, TER, res, trips, ocotp, log, hist, gt, tr, st>>

\* lines 185-191: devfreq_cooling_register
ProbeCdevRegister ==
    /\ pc = "cdev_register"
    /\ \E out \in {"ok", "-EPROBE_DEFER", "-ECDEV"} :
         IF out = "ok"
         THEN /\ tmu' = [tmu EXCEPT !.cdev = "cdev"]
              /\ res' = [res EXCEPT !.cdev = TRUE]
              /\ pc' = "bind" /\ ret' = ret /\ log' = log
         ELSE /\ tmu' = [tmu EXCEPT !.cdev = "ERR"]
              /\ GotoErr(out)
              /\ log' = IF out # "-EPROBE_DEFER" THEN Append(log, "err_cdev") ELSE log
              /\ res' = res
    /\ UNCHANGED <<val, TER, trips, ocotp, hist, gt, tr, st>>

\* lines 193-205: thermal_zone_bind_cooling_device; on failure the cooling
\* device is unregistered before goto err
ProbeBind ==
    /\ pc = "bind"
    /\ \E ok \in BOOLEAN :
         IF ok
         THEN /\ res' = [res EXCEPT !.bound = TRUE]
              /\ pc' = "trips" /\ ret' = ret /\ log' = log
         ELSE /\ res' = [res EXCEPT !.cdev = FALSE]
              /\ GotoErr("-EBIND")
              /\ log' = Append(log, "err_bind")
    /\ UNCHANGED <<tmu, val, TER, trips, ocotp, hist, gt, tr, st>>

\* lines 207-211: the trip temperatures from of_thermal_get_trip_points
ProbeTrips ==
    /\ pc = "trips"
    /\ tmu' = [tmu EXCEPT !.temp_passive = trips[1], !.temp_critical = trips[2]]
    /\ hist' = [hist EXCEPT !.trip_inits = @ + 1]
    /\ pc' = "clk_enable"
    /\ UNCHANGED <<ret, val, TER, res, trips, ocotp, log, gt, tr, st>>

\* lines 214-220: clk_prepare_enable; on failure unbind and unregister
ProbeClkEnable ==
    /\ pc = "clk_enable"
    /\ \E ok \in BOOLEAN :
         IF ok
         THEN /\ res' = [res EXCEPT !.clk_enabled = TRUE]
              /\ pc' = "enable" /\ ret' = ret /\ log' = log
         ELSE /\ res' = [res EXCEPT !.bound = FALSE, !.cdev = FALSE]
              /\ GotoErr("-ECLKEN")
              /\ log' = Append(log, "warn_clk")
    /\ UNCHANGED <<tmu, val, TER, trips, ocotp, hist, gt, tr, st>>

\* lines 223-225: enable the monitor, read-modify-write of TER
ProbeEnable ==
    /\ pc = "enable"
    /\ val' = u32_set_bit31(TER)
    /\ TER' = val'
    /\ hist' = [hist EXCEPT !.ter_sets = @ + 1, !.unmapped_access = Access("probe")]
    /\ pc' = "hwmon"
    /\ UNCHANGED <<ret, tmu, res, trips, ocotp, log, gt, tr, st>>

\* lines 227-230: thermal_add_hwmon_sysfs; on failure goto err
ProbeHwmon ==
    /\ pc = "hwmon"
    /\ \E ok \in BOOLEAN :
         IF ok
         THEN /\ res' = [res EXCEPT !.hwmon = TRUE]
              /\ pc' = "fuse_find" /\ ret' = ret
         ELSE /\ res' = res
              /\ GotoErr("-EHWMON")
    /\ UNCHANGED <<tmu, val, TER, trips, ocotp, log, hist, gt, tr, st>>

\* lines 232-239: do_calib = false, val = 0, look the fuse node up
ProbeFuseFind ==
    /\ pc = "fuse_find"
    /\ tmu' = [tmu EXCEPT !.do_calib = FALSE]
    /\ val' = <<0, 0>>
    /\ \E ok \in BOOLEAN :
         IF ok
         THEN /\ res' = [res EXCEPT !.ocotp_np = TRUE]
              /\ pc' = "fuse_map" /\ log' = log
         ELSE /\ res' = res
              /\ pc' = "ret" /\ log' = Append(log, "warn_no_node")
    /\ UNCHANGED <<ret, TER, trips, ocotp, hist, gt, tr, st>>

\* lines 241-245: of_iomap of the fuse block
ProbeFuseMap ==
    /\ pc = "fuse_map"
    /\ \E ok \in BOOLEAN :
         IF ok
         THEN /\ res' = [res EXCEPT !.ocotp_map = TRUE]
              /\ pc' = "fuse_read" /\ log' = log
         ELSE /\ res' = res
              /\ pc' = "no_ocotp" /\ log' = Append(log, "warn_no_map")
    /\ UNCHANGED <<ret, tmu, val, TER, trips, ocotp, hist, gt, tr, st>>

\* line 248: val == 0 || val == ~0, with ~0 the int -1 converted to u32
fuse_invalid(v) == v = u32(0) \/ v = int_to_u32(-1)

\* the fuse read without the mask: the whole word kept as the offset
ProbeFuseRead_unmasked ==
    /\ pc = "fuse_read"
    /\ \E word \in OCOTP_Words :
         /\ ocotp' = word
         /\ val' = word
    /\ hist' = [hist EXCEPT !.fuse_reads = @ + 1]
    /\ IF fuse_invalid(val')
       THEN /\ log' = Append(log, "err_invalid_calib")
            /\ tmu' = tmu
       ELSE /\ log' = log
            /\ tmu' = [tmu EXCEPT !.fuse_calib_val = val', !.do_calib = TRUE]
    /\ pc' = "no_ocotp_unmap"
    /\ UNCHANGED <<ret, TER, res, trips, gt, tr, st>>

\* lines 247-254: read the fuse, validate it, record the calibration
ProbeFuseRead ==
    /\ pc = "fuse_read"
    /\ \E word \in OCOTP_Words :
         /\ ocotp' = word
         /\ val' = u32_and(word, TEMP_VAL_MASK)
    /\ hist' = [hist EXCEPT !.fuse_reads = @ + 1]
    /\ IF fuse_invalid(val')
       THEN /\ log' = Append(log, "err_invalid_calib")
            /\ tmu' = tmu
       ELSE /\ log' = log
            /\ tmu' = [tmu EXCEPT !.fuse_calib_val = val', !.do_calib = TRUE]
    /\ pc' = "no_ocotp_unmap"
    /\ UNCHANGED <<ret, TER, res, trips, gt, tr, st>>

\* lines 256-259: iounmap(ocotp_base) and of_node_put(ocotp_np)
ProbeFuseRelease ==
    /\ pc \in {"no_ocotp_unmap", "no_ocotp"}
    /\ res' = [res EXCEPT !.ocotp_map = FALSE, !.ocotp_np = FALSE]
    /\ pc' = "ret"
    /\ UNCHANGED <<ret, tmu, val, TER, trips, ocotp, log, hist, gt, tr, st>>

\* lines 261-268: report the calibration mode and return 0
ProbeReturn ==
    /\ pc = "ret"
    /\ log' = Append(log, IF tmu.do_calib THEN "info_sw_calib" ELSE "warn_hw_calib")
    /\ ret' = "0"
    /\ pc' = "bound"
    /\ UNCHANGED <<tmu, val, TER, res, trips, ocotp, hist, gt, tr, st>>

\* lines 269-271: err: iounmap(tmu->tmu_base); return ret
ProbeErr ==
    /\ pc = "err"
    /\ res' = [res EXCEPT !.iomap = FALSE]
    /\ pc' = "probe_failed"
    /\ UNCHANGED <<ret, tmu, val, TER, trips, ocotp, log, hist, gt, tr, st>>


\* ------------------------------------------------------------------------
\* imx8mm_tmu_remove, and the release of the device-managed resources
\* ------------------------------------------------------------------------
\* line 279: thermal_zone_unbind_cooling_device
RemoveUnbind ==
    /\ pc = "bound"
    /\ res' = [res EXCEPT !.bound = FALSE]
    /\ pc' = "r_unregister"
    /\ UNCHANGED <<ret, tmu, val, TER, trips, ocotp, log, hist, gt, tr, st>>

\* line 280: devfreq_cooling_unregister
RemoveUnregister ==
    /\ pc = "r_unregister"
    /\ res' = [res EXCEPT !.cdev = FALSE]
    /\ pc' = "r_disable"
    /\ UNCHANGED <<ret, tmu, val, TER, trips, ocotp, log, hist, gt, tr, st>>

\* the disable placed before devfreq_cooling_unregister
RemoveDisable_early ==
    /\ pc = "r_unregister"
    /\ val' = u32_clear_bit31(TER)
    /\ TER' = val'
    /\ hist' = [hist EXCEPT !.ter_clears = @ + 1, !.unmapped_access = Access("remove")]
    /\ pc' = "r_disable"
    /\ UNCHANGED <<ret, tmu, res, trips, ocotp, log, gt, tr, st>>

\* lines 283-285: disable the TMU, read-modify-write of TER
RemoveDisable ==
    /\ pc = "r_disable"
    /\ val' = u32_clear_bit31(TER)
    /\ TER' = val'
    /\ hist' = [hist EXCEPT !.ter_clears = @ + 1, !.unmapped_access = Access("remove")]
    /\ pc' = "r_clk"
    /\ UNCHANGED <<ret, tmu, res, trips, ocotp, log, gt, tr, st>>

\* line 288: clk_disable_unprepare
RemoveClkDisable ==
    /\ pc = "r_clk"
    /\ res' = [res EXCEPT !.clk_enabled = FALSE]
    /\ pc' = "r_unmap"
    /\ UNCHANGED <<ret, tmu, val, TER, trips, ocotp, log, hist, gt, tr, st>>

\* line 290: iounmap(tmu->tmu_base)
RemoveUnmap ==
    /\ pc = "r_unmap"
    /\ res' = [res EXCEPT !.iomap = FALSE]
    /\ pc' = "r_ret"
    /\ UNCHANGED <<ret, tmu, val, TER, trips, ocotp, log, hist, gt, tr, st>>

\* line 292: return 0
RemoveReturn ==
    /\ pc = "r_ret"
    /\ pc' = "removed"
    /\ UNCHANGED <<ret, tmu, val, TER, trips, ocotp, log, hist, res, gt, tr, st>>

\* after a failed probe or after remove the driver core releases what the
\* devm_ calls of lines 157, 169 and 177 acquired: the zone is unregistered
DevresRelease ==
    /\ pc \in {"probe_failed", "removed"}
    /\ res' = [res EXCEPT !.zone = FALSE, !.clk = FALSE]
    /\ pc' = "released"
    /\ UNCHANGED <<ret, tmu, val, TER, trips, ocotp, log, hist, gt, tr, st>>

\* ------------------------------------------------------------------------
\* tmu_get_temp
\* ------------------------------------------------------------------------
\* the calibration applied to the value already in *val instead of TSCR
imx8mm_get_calibrate_temp_of_val(t, v, tscr) ==
    IF t.do_calib
    THEN u32_add(u32_sub(v, t.fuse_calib_val), u32(CALIB_BASE))
    ELSE v

\* lines 63-72: the value after imx8mm_get_calibrate_temp(tmu, &v), with tscr
\* the content of TSCR
imx8mm_get_calibrate_temp(t, v, tscr) ==
    IF t.do_calib
    THEN u32_add(u32_sub(u32_and(tscr, TEMP_VAL_MASK), t.fuse_calib_val), u32(CALIB_BASE))
    ELSE v

\* the comparison written val <= TEMP_LOW_LIMIT
below_low_limit_inclusive(v) == v = u32(TEMP_LOW_LIMIT) \/ u32_lt(v, u32(TEMP_LOW_LIMIT))

\* lines 86, 91: val < TEMP_LOW_LIMIT, an unsigned comparison
below_low_limit(v) == u32_lt(v, u32(TEMP_LOW_LIMIT))

\* line 95: *temp = val * 1000, the u32 product stored into an int
scaled(v) == u32_to_int(u32_mul(v, MILLI))

\* lines 80-83, 89-90: one sampling of the registers
sample(trit, tscr) ==
    imx8mm_get_calibrate_temp(tmu, u32_and(trit, TEMP_VAL_MASK), tscr)

\* history of a call: a sampling (the register contents, the calibration it
\* saw and the val it left) or the delay
Sampled(trit, tscr) ==
    [kind |-> "sample", trit |-> trit, tscr |-> tscr, calib |-> tmu.do_calib,
     fuse |-> tmu.fuse_calib_val, val |-> sample(trit, tscr)]

Delayed ==
    [kind |-> "delay", trit |-> <<0, 0>>, tscr |-> <<0, 0>>, calib |-> FALSE,
     fuse |-> <<0, 0>>, val |-> <<0, 0>>]

\* the framework invokes a callback of tmu_tz_ops while the sensor is
\* registered with the zone; the polling context runs one at a time
CanPoll == res.zone /\ gt.pc = "idle" /\ tr.pc = "idle"

\* lines 80-86 and, when the value is in range, 95-97
GetTempFirst ==
    /\ CanPoll
    /\ \E trit \in TRITSR_Words, tscr \in TSCR_Words :
         LET v == sample(trit, tscr)
         IN  gt' = IF below_low_limit(v)
                   THEN [gt EXCEPT !.pc = "sleep", !.val = v,
                                   !.events = <<Sampled(trit, tscr)>>]
                   ELSE [gt EXCEPT !.pc = "ret", !.val = v, !.ret = "0",
                                   !.temp_written = TRUE, !.temp = scaled(v),
                                   !.events = <<Sampled(trit, tscr)>>]
    /\ hist' = [hist EXCEPT !.unmapped_access = Access("tmu_get_temp")]
    /\ UNCHANGED <<pc, ret, tmu, val, TER, res, trips, ocotp, log, tr, st>>

\* line 88: msleep(10)
GetTempSleep ==
    /\ gt.pc = "sleep"
    /\ gt' = [gt EXCEPT !.pc = "retry", !.events = Append(@, Delayed)]
    /\ UNCHANGED <<pc, ret, tmu, val, TER, res, trips, ocotp, log, hist, tr, st>>

\* the second read storing the scaled value before the range test
GetTempRetry_writes ==
    /\ gt.pc = "retry"
    /\ \E trit \in TRITSR_Words, tscr \in TSCR_Words :
         LET v == sample(trit, tscr)
         IN  gt' = [gt EXCEPT !.pc = "ret", !.val = v,
                              !.ret = IF below_low_limit(v) THEN "-EAGAIN" ELSE "0",
                              !.temp_written = TRUE, !.temp = scaled(v),
                              !.events = Append(@, Sampled(trit, tscr))]
    /\ hist' = [hist EXCEPT !.unmapped_access = Access("tmu_get_temp")]
    /\ UNCHANGED <<pc, ret, tmu, val, TER, res, trips, ocotp, log, tr, st>>

\* lines 89-92 and, when the value is in range, 95-97
GetTempRetry ==
    /\ gt.pc = "retry"
    /\ \E trit \in TRITSR_Words, tscr \in TSCR_Words :
         LET v == sample(trit, tscr)
         IN  gt' = IF below_low_limit(v)
                   THEN [gt EXCEPT !.pc = "ret", !.val = v, !.ret = "-EAGAIN",
                                   !.events = Append(@, Sampled(trit, tscr))]
                   ELSE [gt EXCEPT !.pc = "ret", !.val = v, !.ret = "0",
                                   !.temp_written = TRUE, !.temp = scaled(v),
                                   !.events = Append(@, Sampled(trit, tscr))]
    /\ hist' = [hist EXCEPT !.unmapped_access = Access("tmu_get_temp")]
    /\ UNCHANGED <<pc, ret, tmu, val, TER, res, trips, ocotp, log, tr, st>>

\* the caller has taken the result; the call's locals are gone
GetTempReturn ==
    /\ gt.pc = "ret"
    /\ gt' = gt_idle
    /\ UNCHANGED <<pc, ret, tmu, val, TER, res, trips, ocotp, log, hist, tr, st>>

\* ------------------------------------------------------------------------
\* tmu_get_trend
\* ------------------------------------------------------------------------
\* line 108: the threshold the trip selects
select_trip(t, trip) ==
    IF trip = IMX_TRIP_PASSIVE THEN t.temp_passive ELSE t.temp_critical

\* lines 110-113: the trends the comparison can yield.  trip_temp -
\* IMX_TEMP_PASSIVE_COOL_DELTA is an int subtraction; where it overflows the
\* behaviour is undefined and either branch may be taken
trend_of(temperature, trip_temp) ==
    IF trip_temp < INT_MIN + IMX_TEMP_PASSIVE_COOL_DELTA
    THEN {"THERMAL_TREND_RAISE_FULL", "THERMAL_TREND_DROP_FULL"}
    ELSE IF temperature >= trip_temp - IMX_TEMP_PASSIVE_COOL_DELTA
         THEN {"THERMAL_TREND_RAISE_FULL"}
         ELSE {"THERMAL_TREND_DROP_FULL"}

\* lines 105-108: the zone check and the read of the threshold
TrendStart ==
    /\ CanPoll
    /\ \E trip \in {IMX_TRIP_PASSIVE, IMX_TRIP_CRITICAL} :
         tr' = IF tmu.tzd = "NULL"
               THEN [tr EXCEPT !.pc = "ret", !.trip = trip, !.ret = "0"]
               ELSE [tr EXCEPT !.pc = "cmp", !.trip = trip,
                               !.trip_temp = select_trip(tmu, trip)]
    /\ UNCHANGED <<pc, ret, tmu, val, TER, res, trips, ocotp, log, hist, gt, st>>

\* the comparison reading the threshold from tmu a second time
TrendCompare_reread ==
    /\ tr.pc = "cmp"
    /\ \E temperature \in ZoneTemps :
         \E trend \in trend_of(temperature, select_trip(tmu, tr.trip)) :
            tr' = [tr EXCEPT !.pc = "ret", !.temperature = temperature,
                             !.trip_temp = select_trip(tmu, tr.trip),
                             !.trend = trend, !.ret = "0"]
    /\ UNCHANGED <<pc, ret, tmu, val, TER, res, trips, ocotp, log, hist, gt, st>>

\* lines 110-115: the comparison with tzd->temperature
TrendCompare ==
    /\ tr.pc = "cmp"
    /\ \E temperature \in ZoneTemps :
         \E trend \in trend_of(temperature, tr.trip_temp) :
            tr' = [tr EXCEPT !.pc = "ret", !.temperature = temperature,
                             !.trend = trend, !.ret = "0"]
    /\ UNCHANGED <<pc, ret, tmu, val, TER, res, trips, ocotp, log, hist, gt, st>>

\* the caller has taken the result
TrendReturn ==
    /\ tr.pc = "ret"
    /\ tr' = tr_idle
    /\ UNCHANGED <<pc, ret, tmu, val, TER, res, trips, ocotp, log, hist, gt, st>>

\* ------------------------------------------------------------------------
\* tmu_set_trip_temp
\* ------------------------------------------------------------------------
\* the stores without their conditions: both thresholds written
tmu_set_trip_temp_both(t, trip, temp) ==
    [t EXCEPT !.temp_critical = temp, !.temp_passive = temp]

\* lines 122-126: the two conditional stores
tmu_set_trip_temp(t, trip, temp) ==
    [t EXCEPT !.temp_critical = IF trip = IMX_TRIP_CRITICAL THEN temp ELSE @,
              !.temp_passive = IF trip = IMX_TRIP_PASSIVE THEN temp ELSE @]

\* lines 118-129, invoked by the policy context while the sensor is registered
SetTripTemp ==
    /\ res.zone
    /\ st.n < MaxSetTrips
    /\ \E trip \in {IMX_TRIP_PASSIVE, IMX_TRIP_CRITICAL}, temp \in SetTemps :
         /\ tmu' = tmu_set_trip_temp(tmu, trip, temp)
         /\ st' = [n |-> st.n + 1, trip |-> trip, temp |-> temp, ret |-> "0"]
    /\ UNCHANGED <<pc, ret, val, TER, res, trips, ocotp, log, hist, gt, tr>>

\* ------------------------------------------------------------------------
\* The system
\* ------------------------------------------------------------------------
Probe ==
    \/ ProbeAlloc \/ ProbeIomap \/ ProbeClkGet \/ ProbeZoneRegister
    \/ ProbeZoneAssign \/ ProbeCdevRegister \/ ProbeBind \/ ProbeTrips
    \/ ProbeClkEnable \/ ProbeEnable \/ ProbeHwmon \/ ProbeFuseFind
    \/ ProbeFuseMap \/ ProbeFuseRead \/ ProbeFuseRelease \/ ProbeReturn
    \/ ProbeErr

Remove ==
    \/ RemoveUnbind \/ RemoveUnregister \/ RemoveDisable \/ RemoveClkDisable
    \/ RemoveUnmap \/ RemoveReturn

Next ==
    \/ Probe \/ Remove \/ DevresRelease
    \/ GetTempFirst \/ GetTempSleep \/ GetTempRetry \/ GetTempReturn
    \/ TrendStart \/ TrendCompare \/ TrendReturn
    \/ SetTripTemp

Spec == Init /\ [][Next]_vars


\* ------------------------------------------------------------------------
\* Properties
\* ------------------------------------------------------------------------
\* the low 8 bits of a register word
low8(w) == w[2] % (TEMP_VAL_MASK + 1)

\* the temperature in degrees a sampling stands for, as an integer:
\* raw - otp_cal_value + 25 when calibrated, the immediate value otherwise
degrees(e) ==
    IF e.calib THEN low8(e.tscr) - e.fuse[2] + CALIB_BASE ELSE low8(e.trit)

\* the last sampling of the running tmu_get_temp call
last_sample == gt.events[Len(gt.events)]

ProbeReturned == pc \in {"bound", "r_unregister", "r_disable", "r_clk", "r_unmap", "r_ret", "removed"}

\* C1: once probe has read the fuse word and returned, the instance is
\* uncalibrated when the low 8 bits of the word are 0x00 or 0xFF, and is
\* calibrated with fuse_calib_val equal to those 8 bits otherwise.
C1_FuseValidation ==
    (ProbeReturned /\ hist.fuse_reads > 0) =>
        IF low8(ocotp) = 0 \/ low8(ocotp) = TEMP_VAL_MASK
        THEN ~tmu.do_calib
        ELSE tmu.do_calib /\ tmu.fuse_calib_val = u32(low8(ocotp))

\* C2: tmu_get_temp returns -EAGAIN whenever the temperature in degrees is
\* below TEMP_LOW_LIMIT at the first sampling and at the retry, negative
\* calibrated values included, and it returns success only if the
\* temperature of the sampling it reports is at least TEMP_LOW_LIMIT.
C2_NotReadyBelowLimit ==
    gt.pc = "ret" =>
        /\ gt.ret = "0" => degrees(last_sample) >= TEMP_LOW_LIMIT
        /\ (/\ Len(gt.events) = 3
            /\ degrees(gt.events[1]) < TEMP_LOW_LIMIT
            /\ degrees(gt.events[3]) < TEMP_LOW_LIMIT) => gt.ret = "-EAGAIN"

\* the kinds of the events of the running call, in order
kinds == [i \in 1..Len(gt.events) |-> gt.events[i].kind]

\* val < 10 as an unsigned 32-bit comparison
val_below_10(v) == v[1] = 0 /\ v[2] < 10

C4_RangeOfResult ==
    (gt.pc = "ret" /\ gt.ret = "0") =>
        /\ gt.temp % MILLI = 0
        /\ gt.temp \div MILLI \in TEMP_LOW_LIMIT..TEMP_VAL_MASK

\* C5: in calibrated mode the val a sampling leaves, which is compared with
\* the low limit, is the integer raw - otp_cal_value + 25 itself, with no
\* wrap-around modulo 2^32.
C5_CalibrationExact ==
    \A i \in 1..Len(gt.events) :
        (gt.events[i].kind = "sample" /\ gt.events[i].calib) =>
            /\ degrees(gt.events[i]) >= 0
            /\ gt.events[i].val = u32(degrees(gt.events[i]))

\* C6: with the zone present tmu_get_trend reports RAISE_FULL if and only if
\* temperature >= threshold - 10000 and DROP_FULL otherwise, the threshold
\* being the one the trip selects; temperature = threshold - 10000 gives
\* RAISE_FULL.  (temperature + 10000 >= threshold is the same comparison.)
C6_TrendRule ==
    (tr.pc = "ret" /\ tr.trend # "unwritten") =>
          IF tr.temperature + IMX_TEMP_PASSIVE_COOL_DELTA >= tr.trip_temp
          THEN tr.trend = "THERMAL_TREND_RAISE_FULL"
          ELSE tr.trend = "THERMAL_TREND_DROP_FULL"

\* C7: tmu_set_trip_temp(trip, temp) returns 0, sets the selected threshold
\* to temp whatever temp is, and leaves the other threshold, do_calib,
\* fuse_calib_val, enabled and TER as they were.
C7_SetTripFrame ==
    [][st'.n = st.n + 1 =>
        /\ st'.ret = "0"
        /\ st'.trip = IMX_TRIP_PASSIVE =>
              /\ tmu'.temp_passive = st'.temp
              /\ tmu'.temp_critical = tmu.temp_critical
        /\ st'.trip = IMX_TRIP_CRITICAL =>
              /\ tmu'.temp_critical = st'.temp
              /\ tmu'.temp_passive = tmu.temp_passive
        /\ tmu'.do_calib = tmu.do_calib
        /\ tmu'.fuse_calib_val = tmu.fuse_calib_val
        /\ tmu'.enabled = tmu.enabled
        /\ TER' = TER]_vars

\* the passive threshold set to INT_MIN, the critical one untouched
C7_Witness ==
    /\ st.n = 1 /\ st.trip = IMX_TRIP_PASSIVE /\ st.temp = INT_MIN
    /\ tmu.temp_passive = INT_MIN /\ tmu.temp_critical = trips[2]
    /\ tmu.do_calib

\* C8: a sampling made uncalibrated yields the low 8 bits of TRITSR, and
\* TSCR plays no part; a sampling made calibrated yields a value fixed by the
\* low 8 bits of TSCR and the offset alone, and TRITSR plays no part in the
\* result or in whether the call retries.
C8_RegisterSelection ==
    /\ (gt.pc = "ret" /\ gt.ret = "0") =>
          gt.temp = degrees(last_sample) * MILLI
    /\ Len(gt.events) >= 1 =>
          LET first == gt.events[1]
              retried == gt.pc = "sleep" \/ Len(gt.events) >= 2
          IN  retried <=> (degrees(first) >= 0 /\ degrees(first) < TEMP_LOW_LIMIT)

\* a calibrated call reports 10 degrees from TSCR = 5 and offset 20 while
\* TRITSR holds 255
C8_Witness ==
    /\ gt.pc = "ret" /\ gt.ret = "0" /\ gt.temp = 10000
    /\ last_sample.calib /\ low8(last_sample.tscr) = 5
    /\ low8(last_sample.trit) = 255

\* C9: whenever probe returns an error, what it had acquired is released:
\* the window unmapped, the cooling device unbound and unregistered, the
\* clock disabled, and the enable bit it set not left set.
C9_ProbeErrorReleases ==
    pc = "probe_failed" =>
        /\ ~res.iomap
        /\ ~res.bound
        /\ ~res.cdev
        /\ ~res.clk_enabled
        /\ ~(hist.ter_sets > 0 /\ u32_bit31(TER))

\* C10: remove clears the enable bit exactly once, after the cooling device
\* is unbound and unregistered and before the window is unmapped, and makes
\* no register access after the unmap.
C10_TeardownOrder ==
    /\ [][hist'.ter_clears # hist.ter_clears =>
            /\ hist.ter_clears = 0
            /\ ~res.bound /\ ~res.cdev
            /\ res.iomap /\ res'.iomap
            /\ ~u32_bit31(TER')]_vars
    /\ [][(res.iomap /\ ~res'.iomap /\ ProbeReturned) => hist.ter_clears = 1]_vars
    /\ [](pc \in {"r_ret", "removed"} =>
            /\ hist.ter_clears = 1
            /\ ~res.iomap
            /\ "remove" \notin hist.unmapped_access)

\* remove has returned with the enable bit cleared once
C10_Witness ==
    /\ pc = "removed" /\ hist.ter_clears = 1 /\ ~u32_bit31(TER)
    /\ ~res.iomap /\ ~res.bound /\ ~res.cdev

\* probe is past the enabling of the monitor (lines 223-225)
MonitorEnabled == hist.ter_sets > 0

\* the messages probe has printed
logged == {log[i] : i \in 1..Len(log)}

\* probe is past the fuse handling (lines 232-254): it read the fuse, or
\* found no fuse node, or could not map the fuse block
CalibrationResolved ==
    hist.fuse_reads > 0 \/ "warn_no_node" \in logged \/ "warn_no_map" \in logged

\* C11: no tmu_get_temp call runs before probe has set the enable bit and
\* established the calibration outcome.
C11_StartupOrder ==
    gt.pc # "idle" => (MonitorEnabled /\ CalibrationResolved)

\* C12: once the driver has written the enable register, tmu->enabled
\* equals bit 31 of the register as last written: true after probe enabled
\* the monitor, false after remove disabled it.
C12_EnabledTracksRegister ==
    (hist.ter_sets > 0 \/ hist.ter_clears > 0) => tmu.enabled = u32_bit31(TER)

\* C13: the calibration is resolved at most once and never changes: when
\* do_calib is true fuse_calib_val is the non-zero low 8 bits of the fuse
\* word, the fuse is read at most once, and once do_calib is true no step
\* changes do_calib or fuse_calib_val.
C13_CalibrationImmutable ==
    /\ [](tmu.do_calib =>
            /\ hist.fuse_reads = 1
            /\ tmu.fuse_calib_val = <<0, low8(ocotp)>>
            /\ low8(ocotp) # 0)
    /\ [](hist.fuse_reads <= 1)
    /\ [][tmu.do_calib =>
            /\ tmu'.do_calib
            /\ tmu'.fuse_calib_val = tmu.fuse_calib_val
            /\ ocotp' = ocotp]_vars

\* calibrated with offset 20 from the fuse word 0xABCD0114, after remove,
\* a poll and a threshold update
C13_Witness ==
    /\ tmu.do_calib /\ ocotp = <<43981, 256 + 20>> /\ tmu.fuse_calib_val = <<0, 20>>
    /\ pc = "removed" /\ st.n > 0 /\ gt.pc = "ret"

\* the calibration is unavailable: no fuse node, no fuse mapping, or a fuse
\* value of 0x00 or 0xFF
CalibrationUnavailable ==
    \/ "warn_no_node" \in logged
    \/ "warn_no_map" \in logged
    \/ (hist.fuse_reads > 0 /\ low8(ocotp) \in {0, TEMP_VAL_MASK})

\* the number of messages m printed
count(m) == Cardinality({i \in 1..Len(log) : log[i] = m})

\* C14: on every path where the calibration is unavailable probe returns 0
\* with do_calib false, prints the hardware-calibration warning exactly
\* once, and has released the fuse mapping and the node reference.
C14_DegradedMode ==
    (ProbeReturned /\ CalibrationUnavailable) =>
        /\ ret = "0"
        /\ ~tmu.do_calib
        /\ count("warn_hw_calib") = 1
        /\ ~res.ocotp_map /\ ~res.ocotp_np

\* the threshold of tmu the trip of the running tmu_get_trend call selects
selected_threshold(t, trip) ==
    IF trip = IMX_TRIP_CRITICAL THEN t.temp_critical ELSE t.temp_passive

\* C15: tmu_get_trend reads the selected threshold once, as a whole value
\* (the one before or the one after a concurrent tmu_set_trip_temp), keeps
\* it through the call whatever tmu_set_trip_temp does meanwhile, and its
\* trend is the trend of that one value.
C15_ThresholdReadOnce ==
    /\ [][(tr.pc = "idle" /\ tr'.pc = "cmp") =>
            tr'.trip_temp = selected_threshold(tmu, tr'.trip)]_vars
    /\ [][tr.pc = "cmp" =>
            /\ tr'.trip_temp = tr.trip_temp
            /\ tr'.trip = tr.trip]_vars
    /\ []((/\ tr.pc = "ret" /\ tr.trend # "unwritten"
           /\ tr.trip_temp >= INT_MIN + IMX_TEMP_PASSIVE_COOL_DELTA) =>
            (tr.trend = "THERMAL_TREND_RAISE_FULL"
                <=> tr.temperature + IMX_TEMP_PASSIVE_COOL_DELTA >= tr.trip_temp))

\* a call that read the passive threshold 85000, during which
\* tmu_set_trip_temp set it to 70000: the trend is that of 85000
C15_Witness ==
    /\ tr.pc = "ret" /\ tr.trip = IMX_TRIP_PASSIVE /\ tr.trip_temp = 85000
    /\ tr.temperature = 74999 /\ tr.trend = "THERMAL_TREND_DROP_FULL"
    /\ st.trip = IMX_TRIP_PASSIVE /\ st.temp = 70000 /\ tmu.temp_passive = 70000

\* C16: when the zone is not yet available to the instance tmu_get_trend
\* reports the stable trend: it never returns leaving the trend unwritten.
C16_DegenerateTrend ==
    tr.pc = "ret" =>
        /\ tr.trend # "unwritten"
        /\ tmu.tzd = "NULL" => tr.trend = "THERMAL_TREND_STABLE"

\* C17: the thresholds are initialised once, from trips[0] and trips[1], and
\* every tmu_get_trend computation uses the supplied trip point or a value
\* tmu_set_trip_temp wrote as its threshold.
C17_ThresholdProvenance ==
    /\ hist.trip_inits <= 1
    /\ hist.trip_inits = 1 /\ st.n = 0 =>
          tmu.temp_passive = trips[1] /\ tmu.temp_critical = trips[2]
    /\ tr.pc = "cmp" =>
          tr.trip_temp \in {IF tr.trip = IMX_TRIP_PASSIVE THEN trips[1] ELSE trips[2]}
                            \cup (IF st.n > 0 THEN SetTemps ELSE {})

\* bits 0..30 of a register word
low31(a) == <<a[1] % SIGN, a[2]>>

\* C18: enable and disable change only bit 31 of TER: enable sets it,
\* disable clears it, both keep bits 0..30, and enable on a register whose
\* bit 31 is already set leaves the word as it was.
C18_EnableBitOnly ==
    /\ [][low31(TER') = low31(TER)]_vars
    /\ [][hist'.ter_sets # hist.ter_sets =>
            /\ u32_bit31(TER')
            /\ u32_bit31(TER) => TER' = TER]_vars
    /\ [][hist'.ter_clears # hist.ter_clears => ~u32_bit31(TER')]_vars

\* enable then disable on a register that held 42 in its low bits
C18_Witness ==
    /\ pc = "removed" /\ hist.ter_sets = 1 /\ hist.ter_clears = 1
    /\ TER = <<0, 42>>

\* C19: tmu_get_temp never reads a TMU register after the window was
\* unmapped by imx8mm_tmu_remove or by the error path of probe.
C19_NoReadAfterUnmap ==
    "tmu_get_temp" \notin hist.unmapped_access

\* C20: no step of tmu_get_temp changes the sensor state or a register, and
\* a call returning -EAGAIN leaves the caller's temperature unwritten.
C20_GetTempFrame ==
    /\ [][gt' # gt => /\ tmu' = tmu /\ TER' = TER /\ ocotp' = ocotp
                      /\ trips' = trips /\ res' = res]_vars
    /\ [](gt.ret = "-EAGAIN" => ~gt.temp_written)
    /\ [](gt.temp_written => gt.ret = "0")

\* a call that slept, read a value below the limit again and returned -EAGAIN
C20_Witness ==
    /\ gt.pc = "ret" /\ gt.ret = "-EAGAIN" /\ ~gt.temp_written
    /\ Len(gt.events) = 3 /\ tmu.do_calib

====
